---- MODULE Spec2Model ----
(***************************************************************************)
(* A model of the ESTR4999 training pipeline:                              *)
(*   - core/ltsf_runner.py : LTSFRunner (test-time accumulation, the       *)
(*     trading-strategy evaluation, optimizer/scheduler construction);     *)
(*   - train.py            : load_config, train_func and the batch driver. *)
(* Prices are integers; every quotient the code forms with "/" is kept as  *)
(* an exact fraction <<numerator, denominator>> in lowest terms.           *)
(***************************************************************************)
EXTENDS Integers, Sequences, FiniteSets, TLC

VARIABLES
    \* ---- LTSFRunner instance (core/ltsf_runner.py) ----
    attrs,                  \* names of the lazily created attributes of self
    predictions_tomorrow,   \* self.predictions_tomorrow
    true_prices_tomorrow,   \* self.true_prices_tomorrow
    true_prices_today,      \* self.true_prices_today
    confidences,            \* self.confidences
    custom_losses,          \* self.custom_losses
    phase,                  \* "idle" | "testing" | "ended"  (the test loop)
    steps_in_run,           \* test_step calls completed in the current test run
    logged,                 \* metric name -> value logged in the current test run
    plot_calls,             \* arguments of each plot_confidence_vs_loss call of the run
    arrived,                \* every batch given to test_step since construction
    runner_error,           \* "" or the exception that ended a hook
    \* ---- one call of evaluate_trading_strategy ----
    arg_predictions,        \* argument predictions_tomorrow
    arg_tomorrow,           \* argument true_prices_tomorrow
    arg_today,              \* argument true_prices_today
    eval_pc,                \* "off" | "called" | "returned"
    eval_result,            \* the dictionary returned
    \* ---- LTSFRunner.configure_optimizers and the scheduler it returns ----
    hparams,                \* self.hparams: the keys configure_optimizers reads
    opt_pc,                 \* "off" | "called" | "returned" | "raised"
    opt_result,             \* the dictionary returned (empty when nothing is returned)
    opt_error,              \* "" or the exception raised
    last_epoch,             \* epoch of the scheduler's latest step
    lr_factor,              \* value wsd_lr_lambda returned at that step
    \* ---- train.py: load_config ----
    task_conf,              \* config.base_conf.task.task_conf
    data_conf,              \* <<the datasets module's <dataset_name>_conf>>, <<>> if it has none
    exp_conf,               \* exp_conf of the experiment file
    load_pc,                \* "off" | "called" | "returned" | "raised"
    fused_conf,             \* the record load_config returned
    load_error,             \* "" or the exception raised
    \* ---- train.py: train_func ----
    hyper_conf,             \* <<the override record>>, <<>> for None
    conf,                   \* the dictionary train_func updates in place
    conf_in,                \* conf as it was passed
    train_pc,               \* "off" | "called" | "returned" | "raised"
    hashed,                 \* <<the record given to cal_conf_hash>>, <<>> before the call
    run_logger,             \* "" | "WandbLogger" | "CSVLogger"
    train_stage,            \* how far the call got
    \* ---- train.py: the batch driver (__main__) ----
    main_pc,                \* "off" | "generate" | "load" | "fit" | "test" | "done" | "aborted"
    sym,                    \* index in ticker_symbols of the symbol being processed
    config_files,           \* symbols whose configuration file has been written
    history                 \* the calls made in the loop, each with its outcome

runner_vars == <<attrs, predictions_tomorrow, true_prices_tomorrow, true_prices_today,
                 confidences, custom_losses, phase, steps_in_run, logged, plot_calls,
                 arrived, runner_error>>

eval_vars == <<arg_predictions, arg_tomorrow, arg_today, eval_pc, eval_result>>

opt_vars == <<hparams, opt_pc, opt_result, opt_error, last_epoch, lr_factor>>

load_vars == <<task_conf, data_conf, exp_conf, load_pc, fused_conf, load_error>>

train_vars == <<hyper_conf, conf, conf_in, train_pc, hashed, run_logger, train_stage>>

main_vars == <<main_pc, sym, config_files, history>>

vars == <<runner_vars, eval_vars, opt_vars, load_vars, train_vars, main_vars>>

-----------------------------------------------------------------------------
(* Bounds of the model *)

MaxPrice == 3        \* prices given to evaluate_trading_strategy
MaxDays == 2         \* length of the sequences given to evaluate_trading_strategy
MaxStepPrice == 2    \* prices carried by a test batch
MaxSteps == 2        \* test_step calls on one LTSFRunner instance
MaxConfValue == 2    \* configuration values are 0..MaxConfValue
MaxEpochs == 4       \* largest value of the three epoch settings of the scheduler

Prices == 1..MaxPrice
StepPrices == 1..MaxStepPrice
Confidences == {0, 1}

-----------------------------------------------------------------------------
(* Exact fractions *)

Abs(x) == IF x < 0 THEN -x ELSE x

RECURSIVE GCD(_, _)
GCD(a, b) == IF b = 0 THEN a ELSE GCD(b, a % b)

\* n / d with d > 0, in lowest terms
Rat(n, d) == LET g == GCD(Abs(n), d) IN <<n \div g, d \div g>>

RatOfInt(n) == <<n, 1>>
RatAdd(a, b) == Rat(a[1] * b[2] + b[1] * a[2], a[2] * b[2])
RatMul(a, b) == Rat(a[1] * b[1], a[2] * b[2])
RatNeg(a) == a[1] < 0

-----------------------------------------------------------------------------
(* LTSFRunner.evaluate_trading_strategy  (core/ltsf_runner.py 39-93) *)

\* variant: a prediction equal to today's price is traded as a long position
ProfitLongOnTie(predicted_price, true_price_tomorrow, true_price_today) ==
    IF predicted_price >= true_price_today
    THEN true_price_tomorrow - true_price_today
    ELSE true_price_today - true_price_tomorrow

\* lines 63-69: the position taken for one day and its profit
Profit(predicted_price, true_price_tomorrow, true_price_today) ==
    IF predicted_price > true_price_today
    THEN true_price_tomorrow - true_price_today
    ELSE IF predicted_price < true_price_today
         THEN true_price_today - true_price_tomorrow
         ELSE 0

\* lines 49-52: the loop's variables before the first iteration
LoopInit ==
    [daily_returns     |-> <<>>,
     cumulative_return |-> RatOfInt(1),
     total_profits     |-> 0,
     loss_days         |-> 0]

\* variant: the daily returns are summed instead of compounded
LoopBodySummed(st, predicted_price, true_price_tomorrow, true_price_today) ==
    LET profit       == Profit(predicted_price, true_price_tomorrow, true_price_today)
        daily_return == Rat(profit, true_price_today)
    IN  [daily_returns     |-> Append(st.daily_returns, daily_return),
         cumulative_return |-> RatAdd(st.cumulative_return, daily_return),
         total_profits     |-> st.total_profits + profit,
         loss_days         |-> IF RatNeg(daily_return) THEN st.loss_days + 1
                                                       ELSE st.loss_days]

\* lines 58-80: one iteration of the loop
LoopBody(st, predicted_price, true_price_tomorrow, true_price_today) ==
    LET profit       == Profit(predicted_price, true_price_tomorrow, true_price_today)
        daily_return == Rat(profit, true_price_today)
    IN  [daily_returns     |-> Append(st.daily_returns, daily_return),
         cumulative_return |-> RatMul(st.cumulative_return,
                                      RatAdd(RatOfInt(1), daily_return)),
         total_profits     |-> st.total_profits + profit,
         loss_days         |-> IF RatNeg(daily_return) THEN st.loss_days + 1
                                                       ELSE st.loss_days]

\* line 57: for i in range(n), from the state st reached after i - 1 iterations
RECURSIVE Loop(_, _, _, _, _, _)
Loop(st, i, n, P, TT, TD) ==
    IF i > n THEN st
    ELSE Loop(LoopBody(st, P[i], TT[i], TD[i]), i + 1, n, P, TT, TD)

RECURSIVE RatSum(_, _)
RatSum(rs, i) == IF i = 0 THEN RatOfInt(0) ELSE RatAdd(RatSum(rs, i - 1), rs[i])

\* line 83: np.mean(daily_returns); the mean of no value is nan
Mean(rs) ==
    IF Len(rs) = 0 THEN "nan"
    ELSE LET s == RatSum(rs, Len(rs)) IN Rat(s[1], s[2] * Len(rs))

\* lines 83-93: the dictionary returned
Metrics(st) ==
    [average_daily_return |-> Mean(st.daily_returns),
     cumulative_return    |-> RatAdd(st.cumulative_return, RatOfInt(-1)),
     loss_days            |-> st.loss_days,
     total_profits        |-> st.total_profits]

\* variant: the loop stops at the second last day
evaluate_second_last(predictions, tomorrow, today) ==
    Metrics(Loop(LoopInit, 1, Len(predictions) - 1, predictions, tomorrow, today))

evaluate_trading_strategy(predictions, tomorrow, today) ==
    Metrics(Loop(LoopInit, 1, Len(predictions), predictions, tomorrow, today))

-----------------------------------------------------------------------------
(* The penalized loss of one example (core/ltsf_lossfunc.py, MSEPenaltyLoss *)
(* with penalty_factor = 5): the squared error, times the penalty factor    *)
(* when the predicted side and the realized move disagree.                  *)

penalty_factor == 5

MSEPenaltyLoss(prediction, label, true_price_today) ==
    LET wrong == (prediction - true_price_today) * (label - true_price_today) < 0
        se    == (prediction - label) * (prediction - label)
    IN  IF wrong THEN penalty_factor * se ELSE se

-----------------------------------------------------------------------------
(* LTSFRunner: the test loop *)

Accumulators == {"predictions_tomorrow", "true_prices_tomorrow", "true_prices_today",
                 "confidences", "custom_losses"}

StepMetrics == {"test/mae", "test/mse", "test/custom_loss", "test/error_percentage"}

TradingMetrics == {"test/average_daily_return", "test/cumulative_return",
                   "test/loss_days", "test/total_profits"}

NoLog == [k \in {} |-> 0]

\* self.log(name, value) for the four trading metrics (lines 104-107)
LogTrading(log, m) ==
    [k \in DOMAIN log \cup TradingMetrics |->
        IF k = "test/average_daily_return" THEN m.average_daily_return
        ELSE IF k = "test/cumulative_return" THEN m.cumulative_return
        ELSE IF k = "test/loss_days" THEN m.loss_days
        ELSE IF k = "test/total_profits" THEN m.total_profits
        ELSE log[k]]

\* The state of a freshly constructed LTSFRunner (__init__, lines 16-37): none of
\* the accumulators exists.
InitRunner ==
    /\ attrs = {}
    /\ predictions_tomorrow = <<>>
    /\ true_prices_tomorrow = <<>>
    /\ true_prices_today = <<>>
    /\ confidences = <<>>
    /\ custom_losses = <<>>
    /\ phase = "idle"
    /\ steps_in_run = 0
    /\ logged = NoLog
    /\ plot_calls = <<>>
    /\ arrived = <<>>
    /\ runner_error = ""

\* trainer.test(model, ...) begins a test run on the instance (train.py 115)
test_start ==
    /\ phase \in {"idle", "ended"}
    /\ runner_error = ""
    /\ phase' = "testing"
    /\ steps_in_run' = 0
    /\ logged' = NoLog
    /\ plot_calls' = <<>>
    /\ UNCHANGED <<attrs, predictions_tomorrow, true_prices_tomorrow, true_prices_today,
                   confidences, custom_losses, arrived, runner_error>>

\* variant: the accumulators are emptied at the first step of every test run
test_step_fresh_per_run ==
    /\ phase = "testing"
    /\ runner_error = ""
    /\ Len(arrived) < MaxSteps
    /\ \E prediction \in StepPrices, label \in StepPrices, today \in StepPrices,
          confidence \in Confidences :
        LET custom_loss == MSEPenaltyLoss(prediction, label, today)
            fresh       == steps_in_run = 0
            Old(s)      == IF fresh THEN <<>> ELSE s
        IN  /\ attrs' = attrs \cup Accumulators
            /\ predictions_tomorrow' = Append(Old(predictions_tomorrow), prediction)
            /\ true_prices_tomorrow' = Append(Old(true_prices_tomorrow), label)
            /\ true_prices_today' = Append(Old(true_prices_today), today)
            /\ confidences' = Append(Old(confidences), confidence)
            /\ custom_losses' = Append(Old(custom_losses), custom_loss)
            /\ arrived' = Append(arrived,
                                 [prediction |-> prediction, label |-> label,
                                  today |-> today, confidence |-> confidence,
                                  custom_loss |-> custom_loss])
    /\ steps_in_run' = steps_in_run + 1
    /\ logged' = [k \in DOMAIN logged \cup StepMetrics |->
                     IF k \in DOMAIN logged THEN logged[k] ELSE "epoch_mean"]
    /\ UNCHANGED <<phase, plot_calls, runner_error>>

\* test_step (lines 138-169) on one single-example batch
test_step ==
    /\ phase = "testing"
    /\ runner_error = ""
    /\ Len(arrived) < MaxSteps
    /\ \E prediction \in StepPrices, label \in StepPrices, today \in StepPrices,
          confidence \in Confidences :
        LET custom_loss == MSEPenaltyLoss(prediction, label, today)
            \* lines 157-162: the lists are created when predictions_tomorrow is absent
            create      == "predictions_tomorrow" \notin attrs
            Old(s)      == IF create THEN <<>> ELSE s
        IN  /\ attrs' = IF create THEN attrs \cup Accumulators ELSE attrs
            /\ predictions_tomorrow' = Append(Old(predictions_tomorrow), prediction)
            /\ true_prices_tomorrow' = Append(Old(true_prices_tomorrow), label)
            /\ true_prices_today' = Append(Old(true_prices_today), today)
            /\ confidences' = Append(Old(confidences), confidence)
            /\ custom_losses' = Append(Old(custom_losses), custom_loss)
            /\ arrived' = Append(arrived,
                                 [prediction |-> prediction, label |-> label,
                                  today |-> today, confidence |-> confidence,
                                  custom_loss |-> custom_loss])
    /\ steps_in_run' = steps_in_run + 1
    \* lines 146-149: four metrics logged with on_epoch=True
    /\ logged' = [k \in DOMAIN logged \cup StepMetrics |->
                     IF k \in DOMAIN logged THEN logged[k] ELSE "epoch_mean"]
    /\ UNCHANGED <<phase, plot_calls, runner_error>>

\* variant: the hook evaluates without testing for the accumulators
on_test_epoch_end_unguarded ==
    /\ phase = "testing"
    /\ runner_error = ""
    /\ phase' = "ended"
    /\ IF {"predictions_tomorrow", "true_prices_tomorrow", "true_prices_today"}
              \subseteq attrs
       THEN LET evaluation_metrics ==
                    evaluate_trading_strategy(predictions_tomorrow, true_prices_tomorrow,
                                              true_prices_today)
            IN  /\ logged' = LogTrading(logged, evaluation_metrics)
                /\ plot_calls' = Append(plot_calls,
                                        <<confidences, custom_losses, predictions_tomorrow,
                                          true_prices_tomorrow, true_prices_today>>)
                /\ UNCHANGED runner_error
       ELSE /\ runner_error' = "AttributeError"
            /\ UNCHANGED <<logged, plot_calls>>
    /\ UNCHANGED <<attrs, predictions_tomorrow, true_prices_tomorrow, true_prices_today,
                   confidences, custom_losses, steps_in_run, arrived>>

\* on_test_epoch_end (lines 95-110)
on_test_epoch_end ==
    /\ phase = "testing"
    /\ runner_error = ""
    /\ phase' = "ended"
    /\ IF {"predictions_tomorrow", "true_prices_tomorrow", "true_prices_today"}
              \subseteq attrs
       THEN LET evaluation_metrics ==
                    evaluate_trading_strategy(predictions_tomorrow, true_prices_tomorrow,
                                              true_prices_today)
            IN  /\ logged' = LogTrading(logged, evaluation_metrics)
                \* line 110 reads self.confidences and self.custom_losses unguarded
                /\ IF {"confidences", "custom_losses"} \subseteq attrs
                   THEN /\ plot_calls' = Append(plot_calls,
                                                <<confidences, custom_losses,
                                                  predictions_tomorrow,
                                                  true_prices_tomorrow, true_prices_today>>)
                        /\ UNCHANGED runner_error
                   ELSE /\ runner_error' = "AttributeError"
                        /\ UNCHANGED plot_calls
       ELSE UNCHANGED <<logged, plot_calls, runner_error>>
    /\ UNCHANGED <<attrs, predictions_tomorrow, true_prices_tomorrow, true_prices_today,
                   confidences, custom_losses, steps_in_run, arrived>>

-----------------------------------------------------------------------------
(* One call of evaluate_trading_strategy on arbitrary equal-length sequences *)

NoMetrics == [k \in {} |-> 0]

EvalOff ==
    /\ arg_predictions = <<>>
    /\ arg_tomorrow = <<>>
    /\ arg_today = <<>>
    /\ eval_pc = "off"
    /\ eval_result = NoMetrics

InitEval ==
    /\ \E n \in 0..MaxDays :
        /\ arg_predictions \in [1..n -> Prices]
        /\ arg_tomorrow \in [1..n -> Prices]
        /\ arg_today \in [1..n -> Prices]
    /\ eval_pc = "called"
    /\ eval_result = NoMetrics

EvaluateCall ==
    /\ eval_pc = "called"
    /\ eval_result' = evaluate_trading_strategy(arg_predictions, arg_tomorrow,
                                                       arg_today)
    /\ eval_pc' = "returned"
    /\ UNCHANGED <<arg_predictions, arg_tomorrow, arg_today>>

-----------------------------------------------------------------------------
(* LTSFRunner.configure_optimizers  (core/ltsf_runner.py 176-225) *)

OptimizerNames == {"Adam", "AdamW", "LBFGS", "SGD"}
SchedulerNames == {"StepLR", "MultiStepLR", "ReduceLROnPlateau", "WSD", "CosineAnnealingLR"}
EpochSettings == 0..MaxEpochs

NoFactor == <<0, 0>>          \* no multiplier computed by this module
NoResult == [k \in {} |-> 0]

\* variant: the ordering is asserted with <= instead of <
WSDOrderLoose(h) ==
    h.lr_warmup_end_epochs <= h.lr_stable_end_epochs /\ h.lr_stable_end_epochs <= h.max_epochs

\* line 205: the assertion of the WSD branch
WSDOrder(h) ==
    h.lr_warmup_end_epochs < h.lr_stable_end_epochs /\ h.lr_stable_end_epochs < h.max_epochs

\* variant: the warmup ramp starts at 0
wsd_lr_lambda_from_zero(h, epoch) ==
    IF epoch < h.lr_warmup_end_epochs
    THEN Rat(epoch, h.lr_warmup_end_epochs)
    ELSE IF h.lr_warmup_end_epochs <= epoch /\ epoch < h.lr_stable_end_epochs
         THEN RatOfInt(1)
         ELSE IF h.lr_stable_end_epochs <= epoch /\ epoch <= h.max_epochs
              THEN Rat(epoch + 1 - h.lr_stable_end_epochs,
                       h.max_epochs - h.lr_stable_end_epochs)
              ELSE NoFactor

\* variant: past the stable phase the multiplier falls linearly to 0
wsd_lr_lambda_decaying(h, epoch) ==
    IF epoch < h.lr_warmup_end_epochs
    THEN Rat(epoch + 1, h.lr_warmup_end_epochs)
    ELSE IF h.lr_warmup_end_epochs <= epoch /\ epoch < h.lr_stable_end_epochs
         THEN RatOfInt(1)
         ELSE IF h.lr_stable_end_epochs <= epoch /\ epoch <= h.max_epochs
              THEN Rat(h.max_epochs - epoch, h.max_epochs - h.lr_stable_end_epochs)
              ELSE NoFactor

\* lines 207-214; past max_epochs the function returns None (NoFactor)
wsd_lr_lambda(h, epoch) ==
    IF epoch < h.lr_warmup_end_epochs
    THEN Rat(epoch + 1, h.lr_warmup_end_epochs)
    ELSE IF h.lr_warmup_end_epochs <= epoch /\ epoch < h.lr_stable_end_epochs
         THEN RatOfInt(1)
         ELSE IF h.lr_stable_end_epochs <= epoch /\ epoch <= h.max_epochs
              THEN Rat(epoch + 1 - h.lr_stable_end_epochs,
                       h.max_epochs - h.lr_stable_end_epochs)
              ELSE NoFactor

OptOff ==
    /\ hparams = [optimizer |-> "Adam", lr_scheduler |-> "StepLR",
                  lr_warmup_end_epochs |-> 0, lr_stable_end_epochs |-> 0, max_epochs |-> 0]
    /\ opt_pc = "off"
    /\ opt_result = NoResult
    /\ opt_error = ""
    /\ last_epoch = 0
    /\ lr_factor = NoFactor

InitOpt ==
    /\ hparams \in [optimizer : OptimizerNames, lr_scheduler : SchedulerNames,
                    lr_warmup_end_epochs : EpochSettings,
                    lr_stable_end_epochs : EpochSettings,
                    max_epochs : EpochSettings]
    /\ opt_pc = "called"
    /\ opt_result = NoResult
    /\ opt_error = ""
    /\ last_epoch = 0
    /\ lr_factor = NoFactor

Raise(e) ==
    /\ opt_pc' = "raised"
    /\ opt_error' = e
    /\ UNCHANGED <<opt_result, last_epoch, lr_factor>>

Return(scheduler, factor) ==
    /\ opt_pc' = "returned"
    /\ opt_result' = [optimizer |-> hparams.optimizer, lr_scheduler |-> scheduler]
    /\ lr_factor' = factor
    /\ UNCHANGED <<opt_error, last_epoch>>

configure_optimizers ==
    /\ opt_pc = "called"
    /\ UNCHANGED hparams
    /\ IF hparams.optimizer \notin {"Adam", "AdamW", "LBFGS"}
       THEN Raise("ValueError: Invalid optimizer type!")
       ELSE CASE hparams.lr_scheduler = "StepLR" -> Return("StepLR", NoFactor)
              [] hparams.lr_scheduler = "MultiStepLR" -> Return("MultiStepLR", NoFactor)
              [] hparams.lr_scheduler = "ReduceLROnPlateau" ->
                     Return("ReduceLROnPlateau", NoFactor)
              [] hparams.lr_scheduler = "WSD" ->
                     IF ~WSDOrder(hparams)
                     THEN Raise("AssertionError")
                     \* LambdaLR takes its first step, at epoch 0, when it is built
                     ELSE Return("LambdaLR", wsd_lr_lambda(hparams, 0))
              [] OTHER -> Raise("ValueError: Invalid lr_scheduler type!")

\* the trainer steps the returned LambdaLR once per training epoch
scheduler_step ==
    /\ opt_pc = "returned"
    /\ opt_result.lr_scheduler = "LambdaLR"
    /\ last_epoch < hparams.max_epochs
    /\ last_epoch' = last_epoch + 1
    /\ lr_factor' = wsd_lr_lambda(hparams, last_epoch + 1)
    /\ UNCHANGED <<hparams, opt_pc, opt_result, opt_error>>

-----------------------------------------------------------------------------
(* train.py: configuration records are functions from key to value *)

ConfValues == 0..MaxConfValue
NoConf == [k \in {} |-> 0]

Records(keys) == UNION {[d -> ConfValues] : d \in SUBSET keys}

\* {**a, **b}, a.update(b), and "for k, v in b.items(): a[k] = v"
DictMerge(a, b) ==
    [k \in DOMAIN a \cup DOMAIN b |-> IF k \in DOMAIN b THEN b[k] ELSE a[k]]

\* a[k] = v
DictSet(a, k, v) == [x \in DOMAIN a \cup {k} |-> IF x = k THEN v ELSE a[x]]

-----------------------------------------------------------------------------
(* load_config  (train.py 46-62) *)

LoadKeys == {"dataset_name", "lr"}

\* variant: the task defaults override the dataset defaults
FuseTaskOverData(task, data, exp) == DictMerge(DictMerge(data, task), exp)

\* lines 59-60
Fuse(task, data, exp) == DictMerge(DictMerge(task, data), exp)

LoadOff ==
    /\ task_conf = NoConf
    /\ data_conf = <<>>
    /\ exp_conf = NoConf
    /\ load_pc = "off"
    /\ fused_conf = NoConf
    /\ load_error = ""

InitLoad ==
    /\ task_conf \in Records(LoadKeys)
    /\ data_conf \in {<<>>} \cup {<<d>> : d \in Records(LoadKeys)}
    /\ exp_conf \in Records(LoadKeys)
    /\ load_pc = "called"
    /\ fused_conf = NoConf
    /\ load_error = ""

load_config ==
    /\ load_pc = "called"
    /\ UNCHANGED <<task_conf, data_conf, exp_conf>>
    /\ IF "dataset_name" \notin DOMAIN exp_conf
       THEN \* line 56: exp_conf['dataset_name']
            /\ load_pc' = "raised"
            /\ load_error' = "KeyError"
            /\ UNCHANGED fused_conf
       ELSE IF data_conf = <<>>
            THEN \* line 56: the datasets module has no such attribute
                 /\ load_pc' = "raised"
                 /\ load_error' = "AttributeError"
                 /\ UNCHANGED fused_conf
            ELSE /\ load_pc' = "returned"
                 /\ fused_conf' = Fuse(task_conf, data_conf[1], exp_conf)
                 /\ UNCHANGED load_error

-----------------------------------------------------------------------------
(* train_func  (train.py 65-115) *)

hash_len == 10

\* core.util.cal_conf_hash: the hash_len-character digest of a record, kept as
\* a term
cal_conf_hash(c, len) == [digest_of |-> c, chars |-> len]

ConfKeys == {"seed", "save_root", "model_name", "dataset_name", "use_wandb"}
HyperKeys == {"seed", "use_wandb"}

\* lines 66-68
ApplyHyper(hyper, c) == IF hyper = <<>> THEN c ELSE DictMerge(c, hyper[1])

\* variant: the hash is taken before the override is applied
HashedBeforeOverride(hyper, c) == c

\* line 69: the record cal_conf_hash is called on
HashedRecord(hyper, c) == ApplyHyper(hyper, c)

TrainOff ==
    /\ hyper_conf = <<>>
    /\ conf = NoConf
    /\ conf_in = NoConf
    /\ train_pc = "off"
    /\ hashed = <<>>
    /\ run_logger = ""
    /\ train_stage = ""

InitTrain ==
    /\ hyper_conf \in {<<>>} \cup {<<h>> : h \in Records(HyperKeys)}
    /\ conf \in Records(ConfKeys)
    /\ conf_in = conf
    /\ train_pc = "called"
    /\ hashed = <<>>
    /\ run_logger = ""
    /\ train_stage = ""

train_func ==
    /\ train_pc = "called"
    /\ UNCHANGED <<hyper_conf, conf_in>>
    /\ LET h     == HashedRecord(hyper_conf, conf)
           conf1 == DictSet(ApplyHyper(hyper_conf, conf), "conf_hash",
                            cal_conf_hash(h, hash_len))
       IN  /\ hashed' = <<h>>
           /\ IF ~({"seed", "save_root", "model_name", "dataset_name"}
                       \subseteq DOMAIN conf1)
              THEN \* lines 71-72 read these keys
                   /\ conf' = conf1
                   /\ train_pc' = "raised"
                   /\ train_stage' = "KeyError"
                   /\ UNCHANGED run_logger
              ELSE LET save_dir == <<conf1["save_root"], conf1["model_name"],
                                     conf1["dataset_name"]>>
                   IN  /\ run_logger' =
                              IF "use_wandb" \in DOMAIN conf1 /\ conf1["use_wandb"] # 0
                              THEN "WandbLogger" ELSE "CSVLogger"
                       /\ conf' = DictSet(conf1, "exp_dir",
                                          <<save_dir, conf1["conf_hash"], conf1["seed"]>>)
                       \* lines 79-115: the trainer, the data module and the model
                       \* are built, then fit, then test; any of them may raise
                       /\ \E stage \in {"construct", "fit", "test", "done"} :
                              /\ train_stage' = stage
                              /\ train_pc' = IF stage = "done" THEN "returned"
                                                               ELSE "raised"

-----------------------------------------------------------------------------
(* The batch driver  (train.py 139-194) *)

\* lines 139-144
ticker_symbols ==
    <<"AAPL", "MSFT", "ORCL", "AMD", "CSCO", "ADBE",
      "IBM", "TXN", "AMAT", "MU", "ADI", "INTC",
      "LRCX", "KLAC", "MSI", "GLW", "HPQ", "TYL",
      "PTC", "WDC">>

NumSymbols == Len(ticker_symbols)

Written(n) == {ticker_symbols[i] : i \in 1..n}

MainOff ==
    /\ main_pc = "off"
    /\ sym = 0
    /\ config_files = {}
    /\ history = <<>>

InitMain ==
    /\ main_pc = "generate"
    /\ sym = 0
    /\ config_files = {}
    /\ history = <<>>

Call(op, result) == [op |-> op, symbol |-> ticker_symbols[sym], result |-> result]

\* variant: an exception in one symbol's run is caught and the loop goes on
EscapeSkipsSymbol ==
    IF sym < NumSymbols
    THEN main_pc' = "load" /\ sym' = sym + 1
    ELSE main_pc' = "done" /\ UNCHANGED sym

\* lines 181-194: nothing in the loop catches an exception; it ends the process
Escape == main_pc' = "aborted" /\ UNCHANGED sym

\* generate_config_files (lines 146-157, called at line 162): the files are
\* written in list order; an error at one file leaves the earlier ones written
generate_config_files ==
    /\ main_pc = "generate"
    /\ UNCHANGED history
    /\ \/ /\ config_files' = Written(NumSymbols)
          /\ main_pc' = "load"
          /\ sym' = 1
       \/ \E n \in 0..(NumSymbols - 1) :
              /\ config_files' = Written(n)
              /\ main_pc' = "aborted"
              /\ UNCHANGED sym

\* line 193: load_config(config_file) returns or raises
main_load_config ==
    /\ main_pc = "load"
    /\ UNCHANGED config_files
    /\ \/ /\ ticker_symbols[sym] \in config_files
          /\ history' = Append(history, Call("load_config", "returned"))
          /\ main_pc' = "fit"
          /\ UNCHANGED sym
       \/ /\ history' = Append(history, Call("load_config", "raised"))
          /\ Escape

\* line 194, train_func up to trainer.fit (lines 66-113)
main_train_fit ==
    /\ main_pc = "fit"
    /\ UNCHANGED config_files
    /\ \/ /\ history' = Append(history, Call("fit", "returned"))
          /\ main_pc' = "test"
          /\ UNCHANGED sym
       \/ /\ history' = Append(history, Call("fit", "raised"))
          /\ Escape

\* line 194, train_func from trainer.test to its return (line 115), and the
\* loop's next iteration
main_train_test ==
    /\ main_pc = "test"
    /\ UNCHANGED config_files
    /\ \/ /\ history' = Append(history, Call("test", "returned"))
          /\ IF sym < NumSymbols
             THEN main_pc' = "load" /\ sym' = sym + 1
             ELSE main_pc' = "done" /\ UNCHANGED sym
       \/ /\ history' = Append(history, Call("test", "raised"))
          /\ Escape

-----------------------------------------------------------------------------
(* Specifications: each runs one part of the program, the other parts idle *)

\* the test loop of one LTSFRunner instance
RunnerInit == InitRunner /\ EvalOff /\ OptOff /\ LoadOff /\ TrainOff /\ MainOff
RunnerIdle == UNCHANGED <<eval_vars, opt_vars, load_vars, train_vars, main_vars>>
RunnerNext ==
    \/ test_start /\ RunnerIdle
    \/ test_step /\ RunnerIdle
    \/ on_test_epoch_end /\ RunnerIdle
Spec == RunnerInit /\ [][RunnerNext]_vars

\* evaluate_trading_strategy as a function of its arguments
EvalInit == InitRunner /\ InitEval /\ OptOff /\ LoadOff /\ TrainOff /\ MainOff
EvalNext ==
    EvaluateCall /\ UNCHANGED <<runner_vars, opt_vars, load_vars, train_vars, main_vars>>
SpecEval == EvalInit /\ [][EvalNext]_vars

\* configure_optimizers on every configuration, then the epochs of the scheduler
OptInit == InitRunner /\ EvalOff /\ InitOpt /\ LoadOff /\ TrainOff /\ MainOff
OptIdle == UNCHANGED <<runner_vars, eval_vars, load_vars, train_vars, main_vars>>
OptNext ==
    \/ configure_optimizers /\ OptIdle
    \/ scheduler_step /\ OptIdle
SpecOpt == OptInit /\ [][OptNext]_vars

\* load_config on every three records
LoadInit == InitRunner /\ EvalOff /\ OptOff /\ InitLoad /\ TrainOff /\ MainOff
LoadNext ==
    load_config /\ UNCHANGED <<runner_vars, eval_vars, opt_vars, train_vars, main_vars>>
SpecLoad == LoadInit /\ [][LoadNext]_vars

\* train_func on every configuration and override
TrainInit == InitRunner /\ EvalOff /\ OptOff /\ LoadOff /\ InitTrain /\ MainOff
TrainNext ==
    train_func /\ UNCHANGED <<runner_vars, eval_vars, opt_vars, load_vars, main_vars>>
SpecTrain == TrainInit /\ [][TrainNext]_vars

\* the batch driver over the twenty symbols
MainInit == InitRunner /\ EvalOff /\ OptOff /\ LoadOff /\ TrainOff /\ InitMain
MainIdle == UNCHANGED <<runner_vars, eval_vars, opt_vars, load_vars, train_vars>>
MainNext ==
    \/ generate_config_files /\ MainIdle
    \/ main_load_config /\ MainIdle
    \/ main_train_fit /\ MainIdle
    \/ main_train_test /\ MainIdle
SpecMain == MainInit /\ [][MainNext]_vars

-----------------------------------------------------------------------------
(* Properties of the trading-strategy evaluation *)

Returned == eval_pc = "returned"
NDays == Len(arg_predictions)

\* profit of day i as the specification words it
DayProfit(i) ==
    CASE arg_predictions[i] > arg_today[i] -> arg_tomorrow[i] - arg_today[i]
      [] arg_predictions[i] < arg_today[i] -> arg_today[i] - arg_tomorrow[i]
      [] arg_predictions[i] = arg_today[i] -> 0

\* profit[i] / today[i] < 0
DayIsLoss(i) ==
    \/ DayProfit(i) < 0 /\ arg_today[i] > 0
    \/ DayProfit(i) > 0 /\ arg_today[i] < 0

RECURSIVE SumOfProfits(_)
SumOfProfits(S) ==
    IF S = {} THEN 0
    ELSE LET i == CHOOSE x \in S : TRUE IN DayProfit(i) + SumOfProfits(S \ {i})

\* C1: total_profits is the sum of the daily profits (long: tomorrow - today,
\* short: today - tomorrow, tie: 0) and loss_days is the number of days whose
\* return profit / today is negative; a day with predicted = today is never a
\* loss day.
C1_ProfitsAndLossDays ==
    Returned =>
        /\ eval_result.total_profits = SumOfProfits(1..NDays)
        /\ eval_result.loss_days = Cardinality({i \in 1..NDays : DayIsLoss(i)})
        /\ eval_result.loss_days <=
               Cardinality({i \in 1..NDays : arg_predictions[i] # arg_today[i]})

\* a tie day on which the price fell, next to a day that did lose
C1_Witness ==
    /\ Returned
    /\ \E i \in 1..NDays : arg_predictions[i] = arg_today[i] /\ arg_tomorrow[i] < arg_today[i]
    /\ \E j \in 1..NDays : DayIsLoss(j)

\* numerator and denominator of the product of the (1 + r_i) = (today_i +
\* profit_i) / today_i over the days in S
RECURSIVE GrowthNum(_)
GrowthNum(S) ==
    IF S = {} THEN 1
    ELSE LET i == CHOOSE x \in S : TRUE
         IN  (arg_today[i] + DayProfit(i)) * GrowthNum(S \ {i})

RECURSIVE GrowthDen(_)
GrowthDen(S) ==
    IF S = {} THEN 1
    ELSE LET i == CHOOSE x \in S : TRUE IN arg_today[i] * GrowthDen(S \ {i})

\* C2: cumulative_return is the product of the (1 + r_i), minus 1; for two days
\* with non-zero returns it differs from r1 + r2.
C2_Compounding ==
    Returned =>
        LET c == eval_result.cumulative_return
        IN  /\ (c[1] + c[2]) * GrowthDen(1..NDays) = GrowthNum(1..NDays) * c[2]
            /\ (NDays = 2 /\ DayProfit(1) # 0 /\ DayProfit(2) # 0) =>
                   c[1] * (arg_today[1] * arg_today[2])
                       # (DayProfit(1) * arg_today[2] + DayProfit(2) * arg_today[1]) * c[2]

C2_Witness ==
    /\ Returned
    /\ NDays = 2
    /\ DayProfit(1) # 0
    /\ DayProfit(2) # 0

\* the orders in which the same test steps can be fed
Orders == Permutations(1..NDays)

Reordered(s, f) == [i \in 1..NDays |-> s[f[i]]]

Step(i) == <<arg_predictions[i], arg_tomorrow[i], arg_today[i]>>

\* the order f feeds a sequence of steps other than the one evaluated
OtherOrder(f) == \E i \in 1..NDays : Step(f[i]) # Step(i)

CumulativeReturnIn(f) ==
    evaluate_trading_strategy(Reordered(arg_predictions, f), Reordered(arg_tomorrow, f),
                              Reordered(arg_today, f)).cumulative_return

\* C3 as claimed: feeding the same test steps in another order changes the
\* cumulative_return.
C3_OrderChangesReturn ==
    Returned =>
        \A f \in Orders :
            OtherOrder(f) => CumulativeReturnIn(f) # eval_result.cumulative_return

\* C3 amended: the cumulative_return is the same in whatever order the same
\* test steps are fed (as an exact value).
C3_OrderKeepsReturn ==
    Returned =>
        \A f \in Orders : CumulativeReturnIn(f) = eval_result.cumulative_return

\* two days of different non-zero returns, and an order that swaps them
C3_Witness ==
    /\ Returned
    /\ NDays >= 2
    /\ DayProfit(1) # 0
    /\ DayProfit(2) # 0
    /\ DayProfit(1) * arg_today[2] # DayProfit(2) * arg_today[1]
    /\ \E f \in Orders : OtherOrder(f)

-----------------------------------------------------------------------------
(* Properties of the accumulators *)

NothingEvaluated ==
    /\ DOMAIN logged \cap TradingMetrics = {}
    /\ plot_calls = <<>>
    /\ runner_error = ""

ZeroStepPhaseEnded == phase = "ended" /\ steps_in_run = 0

\* C6 as claimed: a test phase of zero steps logs no trading metric, plots
\* nothing and does not fail, whatever phases preceded it.
C6_ZeroStepsAlwaysSilent == ZeroStepPhaseEnded => NothingEvaluated

\* C6 amended: that holds of a zero-step phase on an instance on which no
\* test_step has completed; after an earlier phase with steps, a zero-step
\* phase logs the four metrics and plots once, over the earlier examples.
C6_ZeroStepsSilentWhenFresh ==
    ZeroStepPhaseEnded =>
        IF arrived = <<>>
        THEN NothingEvaluated
        ELSE /\ TradingMetrics \subseteq DOMAIN logged
             /\ Len(plot_calls) = 1
             /\ runner_error = ""

C6_Witness == ZeroStepPhaseEnded /\ arrived = <<>>

Column(field) == [i \in 1..Len(arrived) |-> arrived[i][field]]

\* C10: the five accumulators either all do not exist (no test_step has
\* completed) or all exist, each holding one entry per test_step completed since
\* construction, in arrival order; the evaluation ending a test run covers all
\* of them.
C10_AccumulatorsGrowTogether ==
    /\ IF arrived = <<>>
       THEN attrs \cap Accumulators = {}
       ELSE /\ Accumulators \subseteq attrs
            /\ predictions_tomorrow = Column("prediction")
            /\ true_prices_tomorrow = Column("label")
            /\ true_prices_today = Column("today")
            /\ confidences = Column("confidence")
            /\ custom_losses = Column("custom_loss")
    /\ (phase = "ended" /\ arrived # <<>>) =>
           /\ plot_calls = << <<Column("confidence"), Column("custom_loss"),
                                Column("prediction"), Column("label"), Column("today")>> >>
           /\ logged["test/total_profits"] =
                  evaluate_trading_strategy(Column("prediction"), Column("label"),
                                            Column("today")).total_profits

\* the second test run on the instance ended, both runs having had steps
C10_Witness ==
    /\ phase = "ended"
    /\ steps_in_run >= 1
    /\ Len(arrived) > steps_in_run
    /\ Len(custom_losses) = Len(arrived)

-----------------------------------------------------------------------------
(* Properties of configure_optimizers *)

MustFail(h) ==
    \/ h.optimizer \notin {"Adam", "AdamW", "LBFGS"}
    \/ h.lr_scheduler \notin {"StepLR", "MultiStepLR", "ReduceLROnPlateau", "WSD"}
    \/ /\ h.lr_scheduler = "WSD"
       /\ \/ h.lr_warmup_end_epochs >= h.lr_stable_end_epochs
          \/ h.lr_stable_end_epochs >= h.max_epochs

\* C7: configure_optimizers ends in an error and returns nothing when the
\* optimizer or the scheduler name is unsupported or the WSD epochs are not
\* strictly ordered; for every other configuration it returns an optimizer and
\* a scheduler.
C7_ErrorPolicy ==
    opt_pc \in {"returned", "raised"} =>
        IF MustFail(hparams)
        THEN opt_pc = "raised" /\ opt_error # "" /\ opt_result = NoResult
        ELSE /\ opt_pc = "returned"
             /\ opt_error = ""
             /\ DOMAIN opt_result = {"optimizer", "lr_scheduler"}

\* a WSD configuration refused for lr_stable_end_epochs = max_epochs alone
C7_Witness ==
    /\ opt_pc = "raised"
    /\ hparams.optimizer \in {"Adam", "AdamW", "LBFGS"}
    /\ hparams.lr_scheduler = "WSD"
    /\ hparams.lr_warmup_end_epochs < hparams.lr_stable_end_epochs
    /\ hparams.lr_stable_end_epochs = hparams.max_epochs

WSDRunning == opt_pc = "returned" /\ hparams.lr_scheduler = "WSD"

FactorIs(n, d) == lr_factor[2] # 0 /\ d # 0 /\ lr_factor[1] * d = n * lr_factor[2]

AtStable == last_epoch = hparams.lr_warmup_end_epochs => FactorIs(1, 1)

AtDecay ==
    last_epoch = hparams.lr_stable_end_epochs =>
        FactorIs(1, hparams.max_epochs - hparams.lr_stable_end_epochs)

\* C8 as claimed: for every accepted WSD configuration the multiplier is
\* 1/lr_warmup_end_epochs at epoch 0, 1.0 at epoch lr_warmup_end_epochs and
\* 1/(max_epochs - lr_stable_end_epochs) at epoch lr_stable_end_epochs.
C8_BoundaryValues ==
    WSDRunning =>
        /\ last_epoch = 0 => FactorIs(1, hparams.lr_warmup_end_epochs)
        /\ AtStable
        /\ AtDecay

\* C8 amended: the value at epoch 0 is 1/lr_warmup_end_epochs when
\* lr_warmup_end_epochs >= 1, and 1.0 when lr_warmup_end_epochs = 0 (epoch 0 is
\* then the first stable epoch); the other two values are as claimed.
C8_BoundaryValuesWithWarmup ==
    WSDRunning =>
        /\ last_epoch = 0 =>
               IF hparams.lr_warmup_end_epochs >= 1
               THEN FactorIs(1, hparams.lr_warmup_end_epochs)
               ELSE FactorIs(1, 1)
        /\ AtStable
        /\ AtDecay

\* a schedule with a warmup of two epochs or more, stepped to its decay phase
C8_Witness ==
    /\ WSDRunning
    /\ hparams.lr_warmup_end_epochs >= 2
    /\ last_epoch = hparams.lr_stable_end_epochs

-----------------------------------------------------------------------------
(* Properties of load_config and train_func *)

AllKeys == DOMAIN task_conf \cup DOMAIN data_conf[1] \cup DOMAIN exp_conf

\* C4: the record load_config returns has exactly the keys of the three records
\* and holds at each key the experiment value if there is one, else the dataset
\* value if there is one, else the task value.
C4_FusionPriority ==
    load_pc = "returned" =>
        /\ DOMAIN fused_conf = AllKeys
        /\ \A k \in AllKeys :
               fused_conf[k] = IF k \in DOMAIN exp_conf THEN exp_conf[k]
                               ELSE IF k \in DOMAIN data_conf[1] THEN data_conf[1][k]
                               ELSE task_conf[k]

\* one key set to three different values, another set differently by the task
\* and the dataset defaults only
C4_Witness ==
    /\ load_pc = "returned"
    /\ DOMAIN task_conf = LoadKeys
    /\ DOMAIN data_conf[1] = LoadKeys
    /\ DOMAIN exp_conf = {"dataset_name"}
    /\ task_conf["lr"] # data_conf[1]["lr"]
    /\ task_conf["dataset_name"] # data_conf[1]["dataset_name"]
    /\ task_conf["dataset_name"] # exp_conf["dataset_name"]
    /\ data_conf[1]["dataset_name"] # exp_conf["dataset_name"]

\* C5: the record conf_hash is computed from holds the override value at every
\* key of hyper_conf, the passed value at every other key, and no exp_dir; the
\* hash is attached, and exp_dir is attached after it.
C5_HashAfterOverrideBeforeExpDir ==
    train_pc \in {"returned", "raised"} =>
        /\ Len(hashed) = 1
        /\ hyper_conf # <<>> =>
               \A k \in DOMAIN hyper_conf[1] :
                   k \in DOMAIN hashed[1] /\ hashed[1][k] = hyper_conf[1][k]
        /\ \A k \in DOMAIN conf_in :
               (hyper_conf = <<>> \/ k \notin DOMAIN hyper_conf[1]) =>
                   k \in DOMAIN hashed[1] /\ hashed[1][k] = conf_in[k]
        /\ "exp_dir" \notin DOMAIN hashed[1]
        /\ "conf_hash" \notin DOMAIN hashed[1]
        /\ conf["conf_hash"] = cal_conf_hash(hashed[1], hash_len)
        /\ train_stage # "KeyError" =>
               "exp_dir" \in DOMAIN conf /\ conf["exp_dir"][2] = conf["conf_hash"]

\* a finished call whose override changed the seed and added use_wandb
C5_Witness ==
    /\ train_pc = "returned"
    /\ hyper_conf # <<>>
    /\ DOMAIN hyper_conf[1] = {"seed", "use_wandb"}
    /\ "use_wandb" \notin DOMAIN conf_in
    /\ "seed" \in DOMAIN conf_in
    /\ conf_in["seed"] # hyper_conf[1]["seed"]
    /\ "exp_dir" \in DOMAIN conf

-----------------------------------------------------------------------------
(* Properties of the batch driver *)

LoopOps == <<"load_config", "fit", "test">>

\* the e-th call of a batch in which nothing fails
ExpectedSymbol(e) == ticker_symbols[((e - 1) \div Len(LoopOps)) + 1]
ExpectedOp(e) == LoopOps[((e - 1) % Len(LoopOps)) + 1]

\* C9: the symbols are processed one at a time in list order, after all the
\* configuration files have been written: each call is the one that follows
\* the previous call in the order load_config, fit, test, symbol by symbol, it
\* is made only when every earlier call has returned, and a call that raised
\* is the last call of the batch.
C9_SequentialBatch ==
    /\ history # <<>> => config_files = Written(NumSymbols)
    /\ \A e \in 1..Len(history) :
           /\ e <= NumSymbols * Len(LoopOps)
           /\ history[e].symbol = ExpectedSymbol(e)
           /\ history[e].op = ExpectedOp(e)
           /\ history[e].result = "raised" => e = Len(history)
    /\ main_pc = "done" => Len(history) = NumSymbols * Len(LoopOps)

\* the batch stopped at a failure of the second symbol or a later one
C9_Witness ==
    /\ main_pc = "aborted"
    /\ Len(history) > Len(LoopOps)
    /\ history[Len(history)].result = "raised"
    /\ sym < NumSymbols

-----------------------------------------------------------------------------
(* The multiplier past the stable phase *)

PastStable == WSDRunning /\ hparams.lr_stable_end_epochs <= last_epoch

FactorAbove1 == lr_factor[2] > 0 /\ lr_factor[1] > lr_factor[2]
FactorBelow1 == lr_factor[2] > 0 /\ lr_factor[1] < lr_factor[2]

\* C11 as claimed: over the epochs from lr_stable_end_epochs to max_epochs the
\* multiplier reaches 1.0 exactly one epoch past lr_stable_end_epochs and is
\* greater than 1.0 at every later epoch.
C11_OneAtStablePlusOne ==
    PastStable =>
        /\ FactorIs(1, 1) <=> last_epoch = hparams.lr_stable_end_epochs + 1
        /\ last_epoch > hparams.lr_stable_end_epochs + 1 => FactorAbove1

\* C11 amended: over those epochs the multiplier is (e + 1 - lr_stable_end_epochs)
\* / (max_epochs - lr_stable_end_epochs); it is below 1.0 before epoch
\* max_epochs - 1, reaches 1.0 exactly at e = max_epochs - 1, and is greater
\* than 1.0 only at e = max_epochs.
C11_OneAtLastEpoch ==
    PastStable =>
        /\ FactorIs(last_epoch + 1 - hparams.lr_stable_end_epochs,
                    hparams.max_epochs - hparams.lr_stable_end_epochs)
        /\ FactorIs(1, 1) <=> last_epoch = hparams.max_epochs - 1
        /\ FactorAbove1 <=> last_epoch = hparams.max_epochs
        /\ FactorBelow1 <=> last_epoch < hparams.max_epochs - 1

\* a schedule with three epochs or more past the stable phase, stepped to
\* max_epochs
C11_Witness ==
    /\ PastStable
    /\ hparams.max_epochs - hparams.lr_stable_end_epochs >= 3
    /\ last_epoch = hparams.max_epochs
    /\ FactorAbove1

====
